---- MODULE Spec2Model ----
(***************************************************************************)
(* A model of package subunit (src/subunit.go): the writer of Subunit v2   *)
(* packets.  StreamResultToBytes.Status hands an Event to Event.write,     *)
(* which starts three goroutines (makeFlags, makeTimestamp, makeTestID),   *)
(* receives their byte slices over three unbuffered channels, computes the *)
(* packet length (makeLen), inserts it (writeNumber), appends the CRC-32   *)
(* and hands the packet to the io.Writer in one Write call.                *)
(*                                                                         *)
(* Byte strings are run-length encoded: a buffer is a sequence of runs     *)
(* [b |-> byte, n |-> count] in which neighbouring runs hold different     *)
(* bytes, so that an identifier of four million bytes is one run.  32-bit  *)
(* unsigned values (the CRC, the seconds of a timestamp) are kept as their *)
(* four big-endian bytes, because the model checker's integers are signed  *)
(* 32-bit values.                                                          *)
(***************************************************************************)
EXTENDS Integers, Sequences, FiniteSets, TLC

VARIABLES
    e,        \* the Event of the Status call in progress (or the last one)
    pc,       \* where Event.write stands
    g,        \* the state of each sub-encoder goroutine
    ch,       \* the value each goroutine is blocked sending on its channel
    sent,     \* completed sends per channel in this call
    order,    \* the goroutines in the order they reached their send, this call
    bTemp,    \* bytes.Buffer bTemp of Event.write
    writes,   \* the arguments of the Write calls made on the sink in this call
    ret,      \* what Status returned ("pending" while it runs)
    nCalls,   \* Status calls started so far
    num,      \* the integer handed to writeNumber (codec specification)
    enc       \* what writeNumber produced for num, and what readNumber read back

vars == <<e, pc, g, ch, sent, order, bTemp, writes, ret, nCalls, num, enc>>

-----------------------------------------------------------------------------
(* Program constants, src/subunit.go:32-37.                                *)

signature == 179
version == 2
testIDPresent == 8
timestampPresent == 2

(* var status, src/subunit.go:39-47; a missing key reads as the zero byte. *)
status ==
    [s \in {"exists", "inprogress", "success", "uxsuccess", "skip", "fail", "xfail"} |->
        CASE s = "exists" -> 1
          [] s = "inprogress" -> 2
          [] s = "success" -> 3
          [] s = "uxsuccess" -> 4
          [] s = "skip" -> 5
          [] s = "fail" -> 6
          [] s = "xfail" -> 7]

statusLookup(name) == IF name \in DOMAIN status THEN status[name] ELSE 0

-----------------------------------------------------------------------------
(* Bit operations on non-negative integers.                                *)

RECURSIVE BitOr(_, _)
BitOr(a, b) ==
    IF a = 0 THEN b
    ELSE IF b = 0 THEN a
    ELSE (IF a % 2 = 1 \/ b % 2 = 1 THEN 1 ELSE 0) + 2 * BitOr(a \div 2, b \div 2)

RECURSIVE BitAnd(_, _)
BitAnd(a, b) ==
    IF a = 0 \/ b = 0 THEN 0
    ELSE (IF a % 2 = 1 /\ b % 2 = 1 THEN 1 ELSE 0) + 2 * BitAnd(a \div 2, b \div 2)

RECURSIVE BitXor(_, _)
BitXor(a, b) ==
    IF a = 0 THEN b
    ELSE IF b = 0 THEN a
    ELSE (IF a % 2 # b % 2 THEN 1 ELSE 0) + 2 * BitXor(a \div 2, b \div 2)

-----------------------------------------------------------------------------
(* Run-length encoded byte strings.                                        *)

Run(b, n) == [b |-> b, n |-> n]

(* The buffer a followed by the buffer c.                                  *)
Cat(a, c) ==
    IF a = <<>> THEN c
    ELSE IF c = <<>> THEN a
    ELSE IF a[Len(a)].b = c[1].b
         THEN SubSeq(a, 1, Len(a) - 1)
              \o <<Run(c[1].b, a[Len(a)].n + c[1].n)>>
              \o SubSeq(c, 2, Len(c))
         ELSE a \o c

(* The buffer holding the bytes of the plain sequence s.                   *)
RECURSIVE Lit(_)
Lit(s) == IF s = <<>> THEN <<>> ELSE Cat(<<Run(s[1], 1)>>, Lit(Tail(s)))

(* n copies of the byte b: strings.Repeat.                                 *)
Repeat(b, n) == IF n = 0 THEN <<>> ELSE <<Run(b, n)>>

(* The number of bytes of a buffer.                                        *)
RECURSIVE BLen(_)
BLen(buf) == IF buf = <<>> THEN 0 ELSE buf[1].n + BLen(Tail(buf))

(* The first k bytes of a buffer, and what follows them.                   *)
RECURSIVE Take(_, _)
Take(buf, k) ==
    IF k <= 0 \/ buf = <<>> THEN <<>>
    ELSE IF buf[1].n <= k THEN <<buf[1]>> \o Take(Tail(buf), k - buf[1].n)
    ELSE <<Run(buf[1].b, k)>>

RECURSIVE Drop(_, _)
Drop(buf, k) ==
    IF k <= 0 \/ buf = <<>> THEN buf
    ELSE IF buf[1].n <= k THEN Drop(Tail(buf), k - buf[1].n)
    ELSE <<Run(buf[1].b, buf[1].n - k)>> \o Tail(buf)

(* The bytes of a short buffer as a plain sequence.                        *)
RECURSIVE Expand(_)
Expand(buf) ==
    IF buf = <<>> THEN <<>>
    ELSE <<buf[1].b>> \o Expand(Drop(buf, 1))

-----------------------------------------------------------------------------
(* encoding/binary, big endian.                                            *)

BigEndian16(x) == <<x \div 256, x % 256>>

(* The four bytes of uint32(x) for a signed x: a negative x converts to    *)
(* x + 2^32, whose bytes are the complements of the bytes of -x - 1.       *)
BigEndian32(x) ==
    IF x >= 0
    THEN <<x \div 16777216, (x \div 65536) % 256, (x \div 256) % 256, x % 256>>
    ELSE LET y == -x - 1
         IN <<255 - (y \div 16777216), 255 - ((y \div 65536) % 256),
              255 - ((y \div 256) % 256), 255 - (y % 256)>>

-----------------------------------------------------------------------------
(* func writeNumber, src/subunit.go:150-177.  The result is the bytes      *)
(* written to b and the error returned.  uint8(num) keeps the low eight    *)
(* bits of num, also of a negative num.  In the four-byte case             *)
(* num|0xc0000000 is written as its bytes: the two size bits are set in    *)
(* the most significant byte.                                              *)

(* writeNumber taking 64 for a one-byte number.                            *)
writeNumber_le64(n) ==
    CASE n <= 64 ->
            [bytes |-> <<n % 256>>, err |-> "nil"]
      [] n > 64 /\ n < 16384 ->
            [bytes |-> BigEndian16(BitOr(n, 16384) % 65536), err |-> "nil"]
      [] n >= 16384 /\ n < 4194304 ->
            [bytes |-> <<BitOr(n \div 65536, 128) % 256>>
                       \o BigEndian16(BitAnd(n, 65535)),
             err |-> "nil"]
      [] n >= 4194304 /\ n < 1073741824 ->
            [bytes |-> <<BitOr(n \div 16777216, 192), (n \div 65536) % 256,
                         (n \div 256) % 256, n % 256>>,
             err |-> "nil"]
      [] OTHER ->
            [bytes |-> <<>>, err |-> "Number is too big"]

writeNumber(n) ==
    CASE n < 64 ->
            [bytes |-> <<n % 256>>, err |-> "nil"]
      [] n >= 64 /\ n < 16384 ->
            [bytes |-> BigEndian16(BitOr(n, 16384) % 65536), err |-> "nil"]
      [] n >= 16384 /\ n < 4194304 ->
            [bytes |-> <<BitOr(n \div 65536, 128) % 256>>
                       \o BigEndian16(BitAnd(n, 65535)),
             err |-> "nil"]
      [] n >= 4194304 /\ n < 1073741824 ->
            [bytes |-> <<BitOr(n \div 16777216, 192), (n \div 65536) % 256,
                         (n \div 256) % 256, n % 256>>,
             err |-> "nil"]
      [] OTHER ->
            [bytes |-> <<>>, err |-> "Number is too big"]

(* func (s *SubunitSuite) readNumber, src/unnamed/part_000:41-64: reads a  *)
(* number off the front of a buffer.  ok is FALSE where Next(1)[0] would   *)
(* index an empty slice.                                                   *)
readNumber(buf) ==
    IF BLen(buf) < 1 THEN [ok |-> FALSE, val |-> 0, rest |-> buf]
    ELSE
    LET byte1 == buf[1].b
        size == (BitAnd(byte1, 192) \div 64) + 1
        b1Value == BitAnd(byte1, 63)
        more == Expand(Take(Drop(buf, 1), size - 1))
    IN  IF BLen(buf) < size THEN [ok |-> FALSE, val |-> 0, rest |-> buf]
        ELSE [ok |-> TRUE,
              val |-> CASE size = 1 -> b1Value
                        [] size = 2 -> BitOr(b1Value * 256, more[1])
                        [] size = 3 -> BitOr(BitOr(b1Value * 65536, more[1] * 256),
                                             more[2])
                        [] size = 4 -> BitOr(BitOr(BitOr(b1Value * 16777216,
                                                         more[1] * 65536),
                                                   more[2] * 256),
                                             more[3]),
              rest |-> Drop(buf, size)]

-----------------------------------------------------------------------------
(* func makeLen, src/subunit.go:49-66.                                     *)

(* makeLen counting one byte of length up to 63.                           *)
makeLen_le63(baseLen) ==
    LET len == baseLen + 4
    IN  CASE len <= 63 -> [len |-> len + 1, err |-> "nil"]
          [] len > 63 /\ len <= 16381 -> [len |-> len + 2, err |-> "nil"]
          [] len > 16381 /\ len <= 4194300 -> [len |-> len + 3, err |-> "nil"]
          [] OTHER -> [len |-> len, err |-> "The packet is too big"]

(* makeLen accepting up to 4194303 bytes before the length is added.       *)
makeLen_le4194303(baseLen) ==
    LET len == baseLen + 4
    IN  CASE len <= 62 -> [len |-> len + 1, err |-> "nil"]
          [] len > 62 /\ len <= 16381 -> [len |-> len + 2, err |-> "nil"]
          [] len > 16381 /\ len <= 4194303 -> [len |-> len + 3, err |-> "nil"]
          [] OTHER -> [len |-> len, err |-> "The packet is too big"]

makeLen(baseLen) ==
    LET len == baseLen + 4
    IN  CASE len <= 62 -> [len |-> len + 1, err |-> "nil"]
          [] len > 62 /\ len <= 16381 -> [len |-> len + 2, err |-> "nil"]
          [] len > 16381 /\ len <= 4194300 -> [len |-> len + 3, err |-> "nil"]
          [] OTHER -> [len |-> len, err |-> "The packet is too big"]

-----------------------------------------------------------------------------
(* crc32.ChecksumIEEE, called at src/subunit.go:112: the reflected CRC-32  *)
(* of polynomial 0xedb88320, register preset to and finally inverted with  *)
(* 0xffffffff, computed a byte at a time from the usual 256-entry table.   *)
(* A 32-bit value is its four bytes, most significant first.               *)

IEEE == <<237, 184, 131, 32>>

(* The one element of a one-element set.  {f(h) : h \in {x}} computes x    *)
(* once and hands f its value.                                             *)
The(S) == CHOOSE r \in S : TRUE

(* The exclusive or of two bytes, tabulated.                               *)
xorTable == [x \in 0..255 |-> [y \in 0..255 |-> BitXor(x, y)]]

Xor32(a, c) ==
    <<xorTable[a[1]][c[1]], xorTable[a[2]][c[2]],
      xorTable[a[3]][c[3]], xorTable[a[4]][c[4]]>>

Shr1(c) ==
    <<c[1] \div 2,
      (c[1] % 2) * 128 + c[2] \div 2,
      (c[2] % 2) * 128 + c[3] \div 2,
      (c[3] % 2) * 128 + c[4] \div 2>>

RECURSIVE crcBits(_, _)
crcBits(c, k) ==
    IF k = 0 THEN c
    ELSE The({crcBits(h, k - 1) :
                h \in {IF c[4] % 2 = 1 THEN Xor32(Shr1(c), IEEE) ELSE Shr1(c)}})

crcTable == [i \in 0..255 |-> crcBits(<<0, 0, 0, i>>, 8)]

crcUpdate(c, b) == Xor32(crcTable[xorTable[c[4]][b]], <<0, c[1], c[2], c[3]>>)

(* The register after n more bytes b, and after the bytes of a buffer.     *)
RECURSIVE crcRepeat(_, _, _)
crcRepeat(c, b, n) ==
    IF n = 0 THEN c
    ELSE IF n = 1 THEN crcUpdate(c, b)
    ELSE The({crcRepeat(h, b, n - (n \div 2)) : h \in {crcRepeat(c, b, n \div 2)}})

RECURSIVE crcRuns(_, _)
crcRuns(c, buf) ==
    IF buf = <<>> THEN c
    ELSE The({crcRuns(h, Tail(buf)) : h \in {crcRepeat(c, buf[1].b, buf[1].n)}})

ChecksumIEEE(buf) ==
    The({Xor32(h, <<255, 255, 255, 255>>) :
            h \in {The({crcRuns(<<255, 255, 255, 255>>, v) : v \in {buf}})}})

-----------------------------------------------------------------------------
(* type Event, src/subunit.go:74-78.  TestID is the string's bytes.  A     *)
(* Timestamp is time.Time's zero value (zero) or an instant given by its   *)
(* Unix seconds and its nanoseconds within the second, 0..999999999.       *)

ZeroTime == [zero |-> TRUE, sec |-> 0, nsec |-> 0]
Instant(sec, nsec) == [zero |-> FALSE, sec |-> sec, nsec |-> nsec]
IsZero(t) == t.zero
Unix(t) == t.sec

(* e.Timestamp.UnixNano() % 1000000000.  UnixNano is sec*10^9 + nsec and   *)
(* Go's % truncates toward zero, so the remainder has the sign of          *)
(* UnixNano: nsec from the epoch on, nsec - 10^9 (or 0) before it.         *)
UnixNanoRem(t) ==
    IF t.sec >= 0 \/ t.nsec = 0 THEN t.nsec ELSE t.nsec - 1000000000

Event(id, st, ts) == [TestID |-> id, Status |-> st, Timestamp |-> ts]

-----------------------------------------------------------------------------
(* The first bytes of the identifiers drawn: "t" and a two-byte character. *)
IDPrefix == <<116, 195, 169>>

-----------------------------------------------------------------------------
(* The three sub-encoders: the byte slice each sends on its channel.       *)

(* func (e *Event) makeFlags, src/subunit.go:119-130.                      *)
(* makeFlags with the two presence bits exchanged.                         *)
makeFlags_swapped(ev) ==
    LET f0 == version * 16
        f1 == IF ev.TestID # <<>> THEN BitOr(f0, timestampPresent) ELSE f0
        f2 == IF ~IsZero(ev.Timestamp) THEN BitOr(f1, testIDPresent) ELSE f1
    IN  Lit(<<f2, BitOr(0, statusLookup(ev.Status))>>)

makeFlags(ev) ==
    LET f0 == version * 16
        f1 == IF ev.TestID # <<>> THEN BitOr(f0, testIDPresent) ELSE f0
        f2 == IF ~IsZero(ev.Timestamp) THEN BitOr(f1, timestampPresent) ELSE f1
    IN  Lit(<<f2, BitOr(0, statusLookup(ev.Status))>>)

(* func (e *Event) makeTestID, src/subunit.go:132-139; the error of        *)
(* writeNumber is dropped.                                                 *)
(* makeTestID writing the number of characters: the prefix of the model's  *)
(* identifiers ends in a two-byte character.                               *)
makeTestID_chars(ev) ==
    IF ev.TestID # <<>>
    THEN Cat(Lit(writeNumber(IF BLen(ev.TestID) >= Len(IDPrefix)
                             THEN BLen(ev.TestID) - 1
                             ELSE BLen(ev.TestID)).bytes),
             ev.TestID)
    ELSE <<>>

makeTestID(ev) ==
    IF ev.TestID # <<>>
    THEN Cat(Lit(writeNumber(BLen(ev.TestID)).bytes), ev.TestID)
    ELSE <<>>

(* func (e *Event) makeTimestamp, src/subunit.go:141-148.                  *)
makeTimestamp(ev) ==
    IF ~IsZero(ev.Timestamp)
    THEN Cat(Lit(BigEndian32(Unix(ev.Timestamp))),
             Lit(writeNumber(UnixNanoRem(ev.Timestamp)).bytes))
    ELSE <<>>

-----------------------------------------------------------------------------
(* The sequential steps of Event.write.                                    *)

(* src/subunit.go:95-99: bTemp once the three slices are received, in the  *)
(* order of the receives.                                                  *)
provisional(ev) ==
    Cat(Cat(Cat(Lit(<<signature>>), makeFlags(ev)), makeTimestamp(ev)),
        makeTestID(ev))

(* src/subunit.go:101-109: the length, and buffer b holding signature and  *)
(* flags (bTemp.Next(3)), the length, and the rest of bTemp.               *)
insertLength(bT) ==
    LET l == makeLen(BLen(bT))
    IN  IF l.err # "nil"
        THEN [err |-> l.err, b |-> <<>>]
        ELSE [err |-> "nil",
              b |-> Cat(Cat(Take(bT, 3), Lit(writeNumber(l.len).bytes)),
                        Drop(bT, 3))]

(* src/subunit.go:112-113: b with its CRC-32 appended, big endian.         *)
(* The checksum appended least significant byte first.                     *)
appendCRC_littleEndian(b) ==
    The({Cat(b, Lit(<<crc[4], crc[3], crc[2], crc[1]>>)) : crc \in {ChecksumIEEE(b)}})

appendCRC(b) == The({Cat(b, Lit(crc)) : crc \in {ChecksumIEEE(b)}})

-----------------------------------------------------------------------------
(* Bounds of the model and the inputs drawn within them.                   *)

MaxCalls == 2    \* Status calls per behaviour
Edge == 2        \* how far past each size boundary the inputs reach

(* Identifiers are built as the tests build them (src/unnamed/part_000:177):*)
(* a prefix, here "t" and a two-byte character, padded with "_".           *)
TestIDOfLen(n) == Take(Cat(Lit(IDPrefix), Repeat(95, n)), n)

(* Identifier lengths of packets short enough to be checksummed in full:   *)
(* around the 62/63 threshold of makeLen (an identifier of 54 bytes, less  *)
(* the 5 to 8 bytes of a timestamp) and the 63/64 step of its own prefix.  *)
ShortLens == {0, 1, 2, 16} \cup (46 - Edge .. 55 + Edge) \cup {63, 64}

(* Identifier lengths no packet can hold: the first one rejected, and the  *)
(* first one writeNumber rejects.                                          *)
TooLongLens == {4194291, 1073741824}

Timestamps ==
    {ZeroTime,
     Instant(0, 0), Instant(1, 63), Instant(1446681600, 64),
     Instant(1446681600, 16384), Instant(2147483647, 999999999),
     Instant(-1, 999999999), Instant(-86400, 500000000)}

Statuses ==
    {"", "undefined", "exists", "inprogress", "success", "uxsuccess", "skip",
     "fail", "xfail", "dummystatus"}

Events ==
    {Event(TestIDOfLen(n), "", ts) : n \in ShortLens \cup TooLongLens, ts \in Timestamps}
    \cup {Event(TestIDOfLen(n), st, ts) :
            n \in {0, 16}, st \in Statuses, ts \in {ZeroTime, Instant(1446681600, 64)}}

(* What the sink's Write may return.                                       *)
WriteErrors == {"nil", "write failed"}

Chans == {"flags", "timestamp", "testid"}

-----------------------------------------------------------------------------
(* The Status call as a state machine.                                     *)

(* The channel Event.write receives from at each of its three receives,    *)
(* src/subunit.go:97-99.                                                   *)
(* The identifier received before the timestamp.                           *)
recvChan_idFirst(at) ==
    CASE at = "recvFlags" -> "flags"
      [] at = "recvTimestamp" -> "testid"
      [] at = "recvTestID" -> "timestamp"

recvChan(at) ==
    CASE at = "recvFlags" -> "flags"
      [] at = "recvTimestamp" -> "timestamp"
      [] at = "recvTestID" -> "testid"

Init ==
    /\ e = Event(<<>>, "", ZeroTime)
    /\ pc = "idle"
    /\ g = [c \in Chans |-> "unborn"]
    /\ ch = [c \in Chans |-> <<>>]
    /\ sent = [c \in Chans |-> 0]
    /\ order = <<>>
    /\ bTemp = <<>>
    /\ writes = <<>>
    /\ ret = "none"
    /\ nCalls = 0
    /\ num = 0
    /\ enc = <<>>

(* func (s *StreamResultToBytes) Status, src/subunit.go:180-182: the call  *)
(* of e.write on a copy of the caller's Event.                             *)
Call(events) ==
    /\ pc = "idle"
    /\ nCalls < MaxCalls
    /\ \E ev \in events : e' = ev
    /\ pc' = "goFlags"
    /\ g' = [c \in Chans |-> "unborn"]
    /\ ch' = [c \in Chans |-> <<>>]
    /\ sent' = [c \in Chans |-> 0]
    /\ order' = <<>>
    /\ bTemp' = <<>>
    /\ writes' = <<>>
    /\ ret' = "pending"
    /\ nCalls' = nCalls + 1
    /\ UNCHANGED <<num, enc>>

Status == Call(Events)

(* A go statement of Event.write: the goroutine exists from here on.       *)
Go(at, c, next) ==
    /\ pc = at
    /\ g' = [g EXCEPT ![c] = "running"]
    /\ pc' = next
    /\ UNCHANGED <<e, ch, sent, order, bTemp, writes, ret, nCalls, num, enc>>

(* src/subunit.go:84-85, 87-88, 90-91.                                     *)
GoMakeFlags == Go("goFlags", "flags", "goTimestamp")
GoMakeTimestamp == Go("goTimestamp", "timestamp", "goTestID")
GoMakeTestID == Go("goTestID", "testid", "recvFlags")

(* A goroutine computes its slice and blocks in the send on its unbuffered *)
(* channel until Event.write receives.                                     *)
RunTo(c, slice) ==
    /\ g[c] = "running"
    /\ g' = [g EXCEPT ![c] = "sending"]
    /\ ch' = [ch EXCEPT ![c] = slice]
    /\ order' = Append(order, c)
    /\ UNCHANGED <<e, pc, sent, bTemp, writes, ret, nCalls, num, enc>>

(* src/subunit.go:119-130, 141-148, 132-139, each up to its send.          *)
(* makeTimestamp returning without a send when there is no timestamp.     *)
MakeTimestamp_noSend ==
    IF IsZero(e.Timestamp)
    THEN /\ g["timestamp"] = "running"
         /\ g' = [g EXCEPT !["timestamp"] = "done"]
         /\ UNCHANGED <<e, pc, ch, sent, order, bTemp, writes, ret, nCalls, num, enc>>
    ELSE RunTo("timestamp", makeTimestamp(e))

MakeFlags == RunTo("flags", makeFlags(e))
MakeTimestamp == RunTo("timestamp", makeTimestamp(e))
MakeTestID == RunTo("testid", makeTestID(e))

(* A receive of Event.write meets the blocked send: the slice is written   *)
(* to bTemp and the sender runs to its end.                                *)
Recv(at, lead, next) ==
    /\ pc = at
    /\ LET c == recvChan(at)
       IN  /\ g[c] = "sending"
           /\ bTemp' = Cat(Cat(bTemp, lead), ch[c])
           /\ g' = [g EXCEPT ![c] = "done"]
           /\ ch' = [ch EXCEPT ![c] = <<>>]
           /\ sent' = [sent EXCEPT ![c] = @ + 1]
    /\ pc' = next
    /\ UNCHANGED <<e, order, writes, ret, nCalls, num, enc>>

(* src/subunit.go:95-97 (the signature byte, then the flags), 98, 99.      *)
RecvFlags == Recv("recvFlags", Lit(<<signature>>), "recvTimestamp")
RecvTimestamp == Recv("recvTimestamp", <<>>, "recvTestID")
RecvTestID == Recv("recvTestID", <<>>, "makeLen")

(* src/subunit.go:101-116: the length, the early return, the final buffer, *)
(* its checksum, the one Write on the sink and the return of its error.    *)
Finish ==
    /\ pc = "makeLen"
    /\ LET r == insertLength(bTemp)
       IN  IF r.err # "nil"
           THEN /\ ret' = r.err
                /\ UNCHANGED <<bTemp, writes>>
           ELSE /\ \E werr \in WriteErrors : ret' = werr
                /\ writes' = Append(writes, appendCRC(r.b))
                /\ bTemp' = <<>>
    /\ pc' = "idle"
    /\ UNCHANGED <<e, g, ch, sent, order, nCalls, num, enc>>

Next ==
    \/ Status
    \/ GoMakeFlags \/ GoMakeTimestamp \/ GoMakeTestID
    \/ MakeFlags \/ MakeTimestamp \/ MakeTestID
    \/ RecvFlags \/ RecvTimestamp \/ RecvTestID
    \/ Finish

Spec == Init /\ [][Next]_vars

(* The Go scheduler runs every runnable goroutine: each step of Event.write *)
(* and of its goroutines that stays possible is taken.  When Status is     *)
(* called is the caller's choice.  The calls are made on Events that reach *)
(* each way Event.write returns: a packet written, with and without a      *)
(* failing sink, and a packet too large, with and without its identifier's *)
(* length written.                                                         *)
FairEvents ==
    {Event(TestIDOfLen(n), "", ts) :
        n \in {0, 16, 4194291, 1073741824}, ts \in {ZeroTime, Instant(1446681600, 64)}}

StatusFair == Call(FairEvents)

NextFair ==
    \/ StatusFair
    \/ GoMakeFlags \/ GoMakeTimestamp \/ GoMakeTestID
    \/ MakeFlags \/ MakeTimestamp \/ MakeTestID
    \/ RecvFlags \/ RecvTimestamp \/ RecvTestID
    \/ Finish

SpecFair ==
    /\ Init
    /\ [][NextFair]_vars
    /\ WF_vars(GoMakeFlags) /\ WF_vars(GoMakeTimestamp) /\ WF_vars(GoMakeTestID)
    /\ WF_vars(MakeFlags) /\ WF_vars(MakeTimestamp) /\ WF_vars(MakeTestID)
    /\ WF_vars(RecvFlags) /\ WF_vars(RecvTimestamp) /\ WF_vars(RecvTestID)
    /\ WF_vars(Finish)

-----------------------------------------------------------------------------
(* Event.write up to its checksum, src/subunit.go:95-109, on identifiers   *)
(* of every size class.  The receives deliver the flags, the timestamp and *)
(* the identifier in that order; the buffer b is left in enc.  The CRC-32  *)
(* and the Write that follow need every byte of the packet and are part of *)
(* Spec, on the short packets.                                             *)

(* Identifier lengths around each threshold of makeLen (an identifier of   *)
(* 54, 16372 or 4194290 bytes is the longest of its class without a        *)
(* timestamp, and a timestamp takes 5 to 8 bytes more), around each step   *)
(* of the identifier's own length prefix, and the lengths of the tests.    *)
BodyLens ==
    {0, 1, 16, 1073741823, 1073741824}
    \cup UNION {(t - 8 - Edge) .. (t + 1 + Edge) : t \in {54, 16372, 4194290}}
    \cup UNION {(t - Edge) .. (t + 1 + Edge) : t \in {63, 16383}}

BodyTimestamps ==
    {ZeroTime, Instant(1446681600, 63), Instant(1446681600, 64),
     Instant(1446681600, 16384), Instant(1446681600, 999999999),
     Instant(-1, 999999999)}

BodyEvents ==
    {Event(TestIDOfLen(n), "", ts) : n \in BodyLens, ts \in BodyTimestamps}

InitBody ==
    /\ e \in BodyEvents
    /\ pc = "body"
    /\ g = [c \in Chans |-> "unborn"]
    /\ ch = [c \in Chans |-> <<>>]
    /\ sent = [c \in Chans |-> 0]
    /\ order = <<>>
    /\ bTemp = <<>>
    /\ writes = <<>>
    /\ ret = "pending"
    /\ nCalls = 1
    /\ num = 0
    /\ enc = <<>>

(* src/subunit.go:95-99.                                                   *)
Assemble ==
    /\ pc = "body"
    /\ bTemp' = provisional(e)
    /\ pc' = "length"
    /\ UNCHANGED <<e, g, ch, sent, order, writes, ret, nCalls, num, enc>>

(* src/subunit.go:101-109.                                                 *)
InsertLength ==
    /\ pc = "length"
    /\ LET r == insertLength(bTemp)
       IN  /\ ret' = r.err
           /\ enc' = r.b
    /\ pc' = "inserted"
    /\ UNCHANGED <<e, g, ch, sent, order, bTemp, writes, nCalls, num>>

NextBody == Assemble \/ InsertLength

SpecBody == InitBody /\ [][NextBody]_vars

-----------------------------------------------------------------------------
(* The codec alone: writeNumber on an integer, and the tests' readNumber   *)
(* on what it wrote.                                                       *)

RECURSIVE Pow2(_)
Pow2(k) == IF k = 0 THEN 1 ELSE 2 * Pow2(k - 1)

(* Every power of two up to 2^30 and its neighbours.                       *)
Numbers ==
    {n \in UNION {(Pow2(k) - Edge) .. (Pow2(k) + Edge) : k \in 0..30} : n >= 0}

InitCodec ==
    /\ num \in Numbers
    /\ pc = "number"
    /\ enc = [bytes |-> <<>>, err |-> "none", read |-> [ok |-> FALSE]]
    /\ e = Event(<<>>, "", ZeroTime)
    /\ g = [c \in Chans |-> "unborn"]
    /\ ch = [c \in Chans |-> <<>>]
    /\ sent = [c \in Chans |-> 0]
    /\ order = <<>>
    /\ bTemp = <<>>
    /\ writes = <<>>
    /\ ret = "none"
    /\ nCalls = 0

(* src/subunit.go:150-177.                                                 *)
WriteNumber ==
    /\ pc = "number"
    /\ LET w == writeNumber(num)
       IN  enc' = [enc EXCEPT !.bytes = w.bytes, !.err = w.err]
    /\ pc' = "written"
    /\ UNCHANGED <<e, g, ch, sent, order, bTemp, writes, ret, nCalls, num>>

(* src/unnamed/part_000:41-64, on the bytes written.                       *)
ReadNumber ==
    /\ pc = "written"
    /\ enc.err = "nil"
    /\ enc' = [enc EXCEPT !.read = readNumber(Lit(enc.bytes))]
    /\ pc' = "read"
    /\ UNCHANGED <<e, g, ch, sent, order, bTemp, writes, ret, nCalls, num>>

NextCodec == WriteNumber \/ ReadNumber

SpecCodec == InitCodec /\ [][NextCodec]_vars

-----------------------------------------------------------------------------
(* The properties.                                                         *)

(* Status has returned.                                                    *)
Returned == pc = "idle" /\ nCalls > 0

(* Status has returned after handing a packet to the sink.                 *)
Written == Returned /\ ret \in WriteErrors

(* The last k bytes of a buffer.                                           *)
Last(buf, k) == Drop(buf, BLen(buf) - k)

(* C1: whenever the packet body is built without error, the length field   *)
(* at offset 3 decodes to the number of bytes of the whole packet, that is *)
(* the body (signature, flags, length field, timestamp, identifier) and    *)
(* the four bytes of the CRC-32; so makeLen added exactly the bytes the    *)
(* length field takes.                                                     *)
C1_LengthFieldIsPacketSize ==
    (pc = "inserted" /\ ret = "nil") =>
        LET r == readNumber(Drop(enc, 3))
        IN  /\ r.ok
            /\ r.val = BLen(enc) + 4
            /\ r.rest = Drop(bTemp, 3)

(* The largest packet: 4194303 bytes, a three-byte length field.           *)
C1_Witness ==
    /\ pc = "inserted"
    /\ ret = "nil"
    /\ BLen(enc) + 4 = 4194303
    /\ BLen(enc) - BLen(bTemp) = 3

(* C2: for 0 <= num < 2^30 writeNumber writes the fewest bytes of 1..4     *)
(* (1 below 64, 2 below 16384, 3 below 4194304, else 4) with byte count    *)
(* minus one in the top two bits of the first byte, and readNumber reads   *)
(* num back from them; from 2^30 on it returns an error and writes nothing.*)
C2_CodecRoundTrip ==
    /\ (pc \in {"written", "read"} /\ num < 1073741824) =>
            /\ enc.err = "nil"
            /\ Len(enc.bytes) = (IF num < 64 THEN 1
                                 ELSE IF num < 16384 THEN 2
                                 ELSE IF num < 4194304 THEN 3 ELSE 4)
            /\ enc.bytes[1] \div 64 = Len(enc.bytes) - 1
            /\ \A k \in 1..Len(enc.bytes) : enc.bytes[k] \in 0..255
    /\ (pc \in {"written", "read"} /\ num >= 1073741824) =>
            /\ enc.err # "nil"
            /\ enc.bytes = <<>>
    /\ pc = "read" =>
            /\ enc.read.ok
            /\ enc.read.val = num
            /\ enc.read.rest = <<>>

(* The largest number of the codec, read back from four bytes.             *)
C2_Witness ==
    /\ pc = "read"
    /\ num = 1073741823
    /\ Len(enc.bytes) = 4
    /\ enc.read.val = 1073741823

(* C4: building the packet fails, with the packet-too-large error, exactly *)
(* when signature, flags, a three-byte length field, timestamp, identifier *)
(* and CRC together exceed 4194303 bytes, that is when the provisional     *)
(* body and the CRC exceed 4194300; without a timestamp identifiers up to  *)
(* 4194290 bytes are accepted and longer ones rejected.                    *)
C4_TooLargeExactly ==
    pc = "inserted" =>
        LET total == 1 + 2 + 3 + BLen(makeTimestamp(e)) + BLen(makeTestID(e)) + 4
        IN  /\ ret \in {"nil", "The packet is too big"}
            /\ (ret = "The packet is too big") <=> (total > 4194303)
            /\ (ret = "The packet is too big") <=> (BLen(bTemp) + 4 > 4194300)
            /\ ret = "nil" => BLen(enc) + 4 <= 4194303
            /\ IsZero(e.Timestamp) => ((ret = "nil") <=> (BLen(e.TestID) <= 4194290))

(* The shortest identifier that is rejected.                               *)
C4_Witness ==
    /\ pc = "inserted"
    /\ ret = "The packet is too big"
    /\ IsZero(e.Timestamp)
    /\ BLen(e.TestID) = 4194291

(* C7: in every packet body built without error the bytes after the length *)
(* field and the timestamp sub-field are, for a non-empty TestID, a number *)
(* that reads back as the identifier's byte length followed by exactly the *)
(* identifier's bytes, and nothing for an empty TestID.                    *)
C7_IdentifierField ==
    (pc = "inserted" /\ ret = "nil") =>
        LET afterLen == readNumber(Drop(enc, 3)).rest
            field == Drop(afterLen, BLen(makeTimestamp(e)))
            r == readNumber(field)
        IN  IF e.TestID # <<>>
            THEN /\ r.ok
                 /\ r.val = BLen(e.TestID)
                 /\ Take(r.rest, r.val) = e.TestID
                 /\ BLen(r.rest) = r.val
            ELSE field = <<>>

(* An identifier of 16384 bytes, after a timestamp.                        *)
C7_Witness ==
    /\ pc = "inserted"
    /\ ret = "nil"
    /\ BLen(e.TestID) = 16384
    /\ ~IsZero(e.Timestamp)
    /\ BLen(enc) > 16384

(* What a reader of the wire layout finds in a packet: the signature, the  *)
(* flags, a length equal to the packet's size, the timestamp (four bytes   *)
(* and a number below 10^9) when its flag is set, the identifier (a number *)
(* and that many bytes) when its flag is set, and then exactly the four    *)
(* bytes of the CRC-32 of everything before them.                          *)
WellFormed(p) ==
    LET n == BLen(p)
        flags0 == Expand(Take(Drop(p, 1), 1))[1]
        hasTs == BitAnd(flags0, timestampPresent) # 0
        hasId == BitAnd(flags0, testIDPresent) # 0
        l == readNumber(Drop(p, 3))
        tsN == IF hasTs THEN readNumber(Drop(l.rest, 4))
               ELSE [ok |-> TRUE, val |-> 0, rest |-> l.rest]
        idN == IF hasId THEN readNumber(tsN.rest)
               ELSE [ok |-> TRUE, val |-> 0, rest |-> tsN.rest]
    IN  /\ n >= 8
        /\ p[1].b = signature
        /\ l.ok
        /\ l.val = n
        /\ hasTs => (BLen(l.rest) >= 4 /\ tsN.ok /\ tsN.val < 1000000000)
        /\ hasId => idN.ok
        /\ BLen(idN.rest) = idN.val + 4
        /\ Last(p, 4) = Lit(ChecksumIEEE(Take(p, n - 4)))

(* C3: Status is all or nothing on the sink.  When encoding fails (the     *)
(* identifier's length is too large for writeNumber, or the packet is too  *)
(* large) Status returns an error and has made no Write; otherwise it has  *)
(* made exactly one Write, of a complete well-formed packet, and returns   *)
(* what that Write returned.  No packet with a missing or malformed        *)
(* sub-field reaches the sink.                                             *)
C3_AllOrNothing ==
    Returned =>
        /\ ret \notin WriteErrors => writes = <<>>
        /\ writeNumber(BLen(e.TestID)).err # "nil" => ret \notin WriteErrors
        /\ BLen(provisional(e)) + 4 > 4194300 => ret \notin WriteErrors
        /\ ret \in WriteErrors => (Len(writes) = 1 /\ WellFormed(writes[1]))

(* C5: for an Event whose Timestamp is set to T, the packet holds after    *)
(* its length field four bytes, the big-endian seconds of T since the Unix *)
(* epoch, then a number that reads back as the nanoseconds of T within the *)
(* second; the remainder the encoder computes is within 0..999999999.      *)
C5_TimestampRoundTrip ==
    (Written /\ ~IsZero(e.Timestamp)) =>
        LET field == readNumber(Drop(writes[1], 3)).rest
            secs == Expand(Take(field, 4))
            nsec == readNumber(Drop(field, 4))
        IN  /\ UnixNanoRem(e.Timestamp) >= 0
            /\ UnixNanoRem(e.Timestamp) < 1000000000
            /\ Unix(e.Timestamp) >= 0
            /\ secs[1] * 256 + secs[2] = Unix(e.Timestamp) \div 65536
            /\ secs[3] * 256 + secs[4] = Unix(e.Timestamp) % 65536
            /\ nsec.ok
            /\ nsec.val = e.Timestamp.nsec

(* C6: the two bytes after the signature are 0x20, plus 0x08 exactly when  *)
(* TestID is not empty, plus 0x02 exactly when Timestamp is set, and the   *)
(* code of Status (exists 1 .. xfail 7, and 0 for "", "undefined" and any  *)
(* other name); a packet is written whatever the status name is.           *)
C6_FlagsBytes ==
    /\ Written =>
        LET flags == Expand(Take(Drop(writes[1], 1), 2))
        IN  /\ flags[1] = 32 + (IF e.TestID # <<>> THEN 8 ELSE 0)
                            + (IF ~IsZero(e.Timestamp) THEN 2 ELSE 0)
            /\ flags[2] = (CASE e.Status = "exists" -> 1
                             [] e.Status = "inprogress" -> 2
                             [] e.Status = "success" -> 3
                             [] e.Status = "uxsuccess" -> 4
                             [] e.Status = "skip" -> 5
                             [] e.Status = "fail" -> 6
                             [] e.Status = "xfail" -> 7
                             [] OTHER -> 0)
    /\ (Returned /\ BLen(e.TestID) <= 64) => Written

(* A packet with an unrecognized status, an identifier and a timestamp.    *)
C6_Witness ==
    /\ Written
    /\ e.Status = "dummystatus"
    /\ e.TestID # <<>>
    /\ ~IsZero(e.Timestamp)
    /\ Expand(Take(Drop(writes[1], 1), 2)) = <<42, 0>>

(* C8: whatever the order in which the three goroutines finish, bTemp is   *)
(* signature, flags, timestamp, identifier in that order, and the one      *)
(* packet written is the function of the Event alone that the layout       *)
(* gives, in every Status call.                                            *)
C8_OrderIndependent ==
    /\ pc = "makeLen" => bTemp = provisional(e)
    /\ Written => writes = <<appendCRC(insertLength(provisional(e)).b)>>

(* A second call whose identifier goroutine was ready first and whose      *)
(* flags goroutine last.                                                   *)
C8_Witness ==
    /\ Written
    /\ nCalls = 2
    /\ order = <<"testid", "timestamp", "flags">>
    /\ e.TestID # <<>>
    /\ ~IsZero(e.Timestamp)

(* C9: the last four bytes of every packet written are the big-endian      *)
(* IEEE CRC-32 of all the bytes before them, and the packet of the minimal *)
(* Event is B3 20 00 08 18 15 F0 BA.                                       *)
C9_Checksum ==
    Written =>
        LET p == writes[1]
        IN  /\ Last(p, 4) = Lit(ChecksumIEEE(Take(p, BLen(p) - 4)))
            /\ e = Event(<<>>, "", ZeroTime) =>
                    Expand(p) = <<179, 32, 0, 8, 24, 21, 240, 186>>

(* The minimal packet, written.                                            *)
C9_Witness ==
    /\ Written
    /\ e = Event(<<>>, "", ZeroTime)
    /\ BLen(writes[1]) = 8

(* C10: every call of Event.write returns, and when it returns, on every   *)
(* path, each goroutine has made its one send and ended; the receives      *)
(* happen once each, flags then timestamp then identifier, all before the  *)
(* length is computed.                                                     *)
Joined ==
    /\ \A c \in Chans : sent[c] <= 1
    /\ sent["timestamp"] <= sent["flags"]
    /\ sent["testid"] <= sent["timestamp"]
    /\ pc = "makeLen" => \A c \in Chans : sent[c] = 1
    /\ Returned => \A c \in Chans : g[c] = "done" /\ sent[c] = 1 /\ ch[c] = <<>>

====
